---- MODULE Spec2Model ----
(***************************************************************************)
(* A model of the chip8-rust virtual machine: the interpreter (cpu.rs),    *)
(* the framebuffer (graphics.rs), the keypad snapshot (keypad.rs), the     *)
(* 60Hz timer thread (timer.rs) and the main loop that couples them        *)
(* (main.rs).                                                              *)
(*                                                                         *)
(* Two threads run: the main thread (poll keypad, cycle, read the beep     *)
(* flag, sleep) and the timer thread (check the channel, lock the timer    *)
(* pair, decrement, set the beep flag, store, sleep).  A thread's step is  *)
(* atomic up to its next access to a mutex or the channel; everything a    *)
(* thread does on its own state between two such accesses is one step.     *)
(* Sleeps carry no timing: they are positions a thread passes through.     *)
(***************************************************************************)
EXTENDS Integers, Sequences, FiniteSets, TLC

VARIABLES
    memory,          \* Cpu.memory : [u8; 4096]
    v,               \* Cpu.v : [u8; 16]
    i,               \* Cpu.i : usize
    pc,              \* Cpu.pc : usize
    stack,           \* Cpu.stack : Vec<usize>, last element is the top
    instr_log,       \* Cpu.instr_log : Vec<u16>, newest first
    screen,          \* Graphics.screen : [[u8; 64]; 32], screen[y][x]
    keypad,          \* Keypad.keypad : [bool; 16]
    pause,           \* the shared pause flag (Rc<RefCell<bool>>)
    wrapping_enabled,\* Config.wrapping_enabled
    wants_to_quit,   \* main's local wants_to_quit
    timers,          \* the shared pair <<delay_timer, sound_timer>>
    timers_lock,     \* holder of the timers mutex: "free", "main" or "timer"
    timers_poisoned, \* whether the timers mutex is poisoned
    must_beep,       \* the shared beep flag
    must_beep_lock,  \* holder of the must_beep mutex
    beeping,         \* the audio device: resumed (TRUE) or paused (FALSE)
    chan,            \* the mpsc channel: "empty", "sent" or "disconnected"
    main_pc,         \* position of the main thread
    timer_pc,        \* position of the timer thread
    cpu_local,       \* the pair the interpreter read under the lock
    timer_local      \* the timer thread's locals <<delay_timer, sound_timer>>

cpu_vars == <<memory, v, i, pc, stack, screen>>
vars == <<memory, v, i, pc, stack, instr_log, screen, keypad, pause,
          wrapping_enabled, wants_to_quit, timers, timers_lock,
          timers_poisoned, must_beep, must_beep_lock, beeping, chan,
          main_pc, timer_pc, cpu_local, timer_local>>

(***************************************************************************)
(* Sizes fixed by the program.                                             *)
(***************************************************************************)
MemSize == 4096
NumRegs == 16
ScreenWidth == 64
ScreenHeight == 32
LogSize == 12
StackArrSize == 12
RomStart == 512
FontLen == 80

\* The value the timer programs load into the timers.
TimerStart == 2

Byte == 0..255

(***************************************************************************)
(* Arithmetic on bytes.                                                    *)
(***************************************************************************)
OrBit(p, q) == IF p + q > 0 THEN 1 ELSE 0
AndBit(p, q) == p * q
XorBit(p, q) == (p + q) % 2

BitOf(op, p, q) ==
    CASE op = "or" -> OrBit(p, q)
      [] op = "and" -> AndBit(p, q)
      [] op = "xor" -> XorBit(p, q)

RECURSIVE Bitwise(_, _, _, _)
Bitwise(op, a, b, n) ==
    IF n = 0 THEN 0
    ELSE BitOf(op, a % 2, b % 2) + 2 * Bitwise(op, a \div 2, b \div 2, n - 1)

BitOr(a, b) == Bitwise("or", a, b, 8)
BitAnd(a, b) == Bitwise("and", a, b, 8)
BitXor(a, b) == Bitwise("xor", a, b, 8)

\* `b as u8` for a bool b
BoolAsU8(b) == IF b THEN 1 ELSE 0

Min(a, b) == IF a < b THEN a ELSE b

(***************************************************************************)
(* Memory image: the font at 0, the ROM at 0x200.                          *)
(***************************************************************************)
Font == <<
    240, 144, 144, 144, 240,    32,  96,  32,  32, 112,
    240,  16, 240, 128, 240,   240,  16, 240,  16, 240,
    144, 144, 240,  16,  16,   240, 128, 240,  16, 240,
    240, 128, 240, 144, 240,   240,  16,  32,  64,  64,
    240, 144, 240, 144, 240,   240, 144, 240,  16, 240,
    240, 144, 240, 144, 144,   224, 144, 224, 144, 224,
    240, 128, 128, 128, 240,   224, 144, 144, 144, 224,
    240, 128, 240, 128, 240,   240, 128, 240, 128, 128 >>

load_fonts(mem) ==
    [a \in 0..(MemSize - 1) |-> IF a < FontLen THEN Font[a + 1] ELSE mem[a]]

\* file.read(&mut memory[0x200..]): at most MemSize - RomStart bytes are read
load_rom(rom, mem) ==
    [a \in 0..(MemSize - 1) |->
        IF a >= RomStart /\ a - RomStart < Len(rom) THEN rom[a - RomStart + 1]
        ELSE mem[a]]

(***************************************************************************)
(* Decoding (Cpu::execute_instr).                                          *)
(***************************************************************************)
Nibble0(instr) == (instr \div 4096) % 16
Nibble1(instr) == (instr \div 256) % 16
Nibble2(instr) == (instr \div 16) % 16
Nibble3(instr) == instr % 16
AddrNNN(instr) == instr % 4096
ByteNN(instr) == instr % 256

\* the arm taken when no pattern matches: `_ => NextPCValue::Next`
NoMatch == "none"

\* The arm of the match that `instr` selects, first match first.
Decode(instr) ==
    LET n0 == Nibble0(instr)
        n1 == Nibble1(instr)
        n2 == Nibble2(instr)
        n3 == Nibble3(instr)
    IN  CASE n0 = 0 /\ n1 = 0 /\ n2 = 14 /\ n3 = 0 -> "00e0"
          [] n0 = 0 /\ n1 = 0 /\ n2 = 14 /\ n3 = 14 -> "00ee"
          [] n0 = 1 -> "1nnn"
          [] n0 = 2 -> "2nnn"
          [] n0 = 3 -> "3xkk"
          [] n0 = 4 -> "4xkk"
          [] n0 = 5 /\ n3 = 0 -> "5xy0"
          [] n0 = 6 -> "6xnn"
          [] n0 = 7 -> "7xnn"
          [] n0 = 8 /\ n3 = 0 -> "8xy0"
          [] n0 = 8 /\ n3 = 1 -> "8xy1"
          [] n0 = 8 /\ n3 = 2 -> "8xy2"
          [] n0 = 8 /\ n3 = 3 -> "8xy3"
          [] n0 = 8 /\ n3 = 4 -> "8xy4"
          [] n0 = 8 /\ n3 = 5 -> "8xy5"
          [] n0 = 8 /\ n3 = 6 -> "8x06"
          [] n0 = 8 /\ n3 = 7 -> "8xy7"
          [] n0 = 8 /\ n3 = 14 -> "8xye"
          [] n0 = 9 /\ n3 = 0 -> "9xy0"
          [] n0 = 10 -> "annn"
          [] n0 = 11 -> "bnnn"
          [] n0 = 12 -> "cxnn"
          [] n0 = 13 -> "dxyn"
          [] n0 = 14 /\ n2 = 9 /\ n3 = 14 -> "ex9e"
          [] n0 = 14 /\ n2 = 10 /\ n3 = 1 -> "exa1"
          [] n0 = 15 /\ n2 = 0 /\ n3 = 7 -> "fx07"
          [] n0 = 15 /\ n2 = 0 /\ n3 = 10 -> "fx0a"
          [] n0 = 15 /\ n2 = 1 /\ n3 = 5 -> "fx15"
          [] n0 = 15 /\ n2 = 1 /\ n3 = 8 -> "fx18"
          [] n0 = 15 /\ n2 = 1 /\ n3 = 14 -> "fx1e"
          [] n0 = 15 /\ n2 = 2 /\ n3 = 9 -> "fx29"
          [] n0 = 15 /\ n2 = 3 /\ n3 = 3 -> "fx33"
          [] n0 = 15 /\ n2 = 5 /\ n3 = 5 -> "fx55"
          [] n0 = 15 /\ n2 = 6 /\ n3 = 5 -> "fx65"
          [] OTHER -> NoMatch

\* The opcodes that go through the timers mutex.
TimerOps == {"fx07", "fx15", "fx18"}

(***************************************************************************)
(* NextPCValue, and the result of one opcode: the interpreter's state      *)
(* after it, the PC change it asks for, and whether it panicked.           *)
(***************************************************************************)
NextPC == [kind |-> "Next", addr |-> 0]
SkipPC == [kind |-> "Skip", addr |-> 0]
JumpPC(a) == [kind |-> "Jump", addr |-> a]

Same == [memory |-> memory, v |-> v, i |-> i, stack |-> stack,
         screen |-> screen, pcc |-> NextPC, panic |-> FALSE]

Panic(r) == [r EXCEPT !.panic = TRUE]

SetV(r, x, val) == [r EXCEPT !.v = [r.v EXCEPT ![x] = val]]

(***************************************************************************)
(* Graphics.                                                               *)
(***************************************************************************)
BlankScreen == [y \in 0..(ScreenHeight - 1) |-> [x \in 0..(ScreenWidth - 1) |-> 0]]

clear_screen(scr) == BlankScreen

\* a plot that returns 1 whenever it changes the pixel, in either direction
set_pos_reports_change(scr, x, y, val) ==
    IF ~wrapping_enabled
    THEN IF x < ScreenWidth /\ y < ScreenHeight
         THEN [screen |-> [scr EXCEPT ![y][x] = BitXor(scr[y][x], val)],
               changed |-> val]
         ELSE [screen |-> scr, changed |-> 0]
    ELSE LET yy == y % ScreenHeight
             xx == x % ScreenWidth
         IN  [screen |-> [scr EXCEPT ![yy][xx] = BitXor(scr[yy][xx], val)],
              changed |-> val]

\* a plot that wraps the coordinates whatever the configuration says
set_pos_always_wraps(scr, x, y, val) ==
    LET yy == y % ScreenHeight
        xx == x % ScreenWidth
    IN  [screen |-> [scr EXCEPT ![yy][xx] = BitXor(scr[yy][xx], val)],
         changed |-> BitAnd(scr[yy][xx], val)]

\* a plot that ORs the value into the screen
set_pos_or(scr, x, y, val) ==
    IF ~wrapping_enabled
    THEN IF x < ScreenWidth /\ y < ScreenHeight
         THEN [screen |-> [scr EXCEPT ![y][x] = BitOr(scr[y][x], val)],
               changed |-> BitAnd(scr[y][x], val)]
         ELSE [screen |-> scr, changed |-> 0]
    ELSE LET yy == y % ScreenHeight
             xx == x % ScreenWidth
         IN  [screen |-> [scr EXCEPT ![yy][xx] = BitOr(scr[yy][xx], val)],
              changed |-> BitAnd(scr[yy][xx], val)]

\* Graphics::set_pos: the screen after the plot, and the value returned.
set_pos(scr, x, y, val) ==
    IF ~wrapping_enabled
    THEN IF x < ScreenWidth /\ y < ScreenHeight
         THEN [screen |-> [scr EXCEPT ![y][x] = BitXor(scr[y][x], val)],
               changed |-> BitAnd(scr[y][x], val)]
         ELSE [screen |-> scr, changed |-> 0]
    ELSE LET yy == y % ScreenHeight
             xx == x % ScreenWidth
         IN  [screen |-> [scr EXCEPT ![yy][xx] = BitXor(scr[yy][xx], val)],
              changed |-> BitAnd(scr[yy][xx], val)]

\* Graphics::draw copies the stack and the log into arrays of 12 and panics
\* on the 13th element; everything else it does is rendering.
draw_panics(stk, log) == Len(stk) > StackArrSize \/ Len(log) > LogSize

(***************************************************************************)
(* The opcodes of Cpu.  Each gives the result record of the opcode run on  *)
(* the current state.                                                      *)
(***************************************************************************)
op_00e0 == [Same EXCEPT !.screen = clear_screen(screen)]

\* a return that restarts the program when the stack is empty
op_00ee_default ==
    IF stack = <<>> THEN [Same EXCEPT !.pcc = JumpPC(RomStart)]
    ELSE [Same EXCEPT !.stack = SubSeq(stack, 1, Len(stack) - 1),
                      !.pcc = JumpPC(stack[Len(stack)])]

op_00ee ==
    IF stack = <<>> THEN Panic(Same)
    ELSE [Same EXCEPT !.stack = SubSeq(stack, 1, Len(stack) - 1),
                      !.pcc = JumpPC(stack[Len(stack)])]

op_1nnn(nnn) == [Same EXCEPT !.pcc = JumpPC(nnn)]

\* a call that pushes the address of the call itself
op_2nnn_pushes_pc(nnn) == [Same EXCEPT !.stack = Append(stack, pc),
                                       !.pcc = JumpPC(nnn)]

op_2nnn(nnn) == [Same EXCEPT !.stack = Append(stack, pc + 2),
                             !.pcc = JumpPC(nnn)]

op_3xkk(x, nn) == [Same EXCEPT !.pcc = IF v[x] = nn THEN SkipPC ELSE NextPC]

op_4xkk(x, nn) == [Same EXCEPT !.pcc = IF v[x] # nn THEN SkipPC ELSE NextPC]

op_5xy0(x, y) == [Same EXCEPT !.pcc = IF v[x] = v[y] THEN SkipPC ELSE NextPC]

\* a load that adds to the register
op_6xnn_adds(x, nn) == SetV(Same, x, (v[x] + nn) % 256)

op_6xnn(x, nn) == SetV(Same, x, nn)

op_7xnn(x, nn) == SetV(Same, x, (v[x] + nn) % 256)

op_8xy0(x, y) == SetV(Same, x, v[y])

op_8xy1(x, y) == SetV(Same, x, BitOr(v[x], v[y]))

op_8xy2(x, y) == SetV(Same, x, BitAnd(v[x], v[y]))

op_8xy3(x, y) == SetV(Same, x, BitXor(v[x], v[y]))

\* v[x] is written first, v[0xF] second
op_8xy4(x, y) ==
    SetV(SetV(Same, x, (v[x] + v[y]) % 256), 15,
         IF v[x] + v[y] > 255 THEN 1 ELSE 0)

op_8xy5(x, y) ==
    SetV(SetV(Same, x, (v[x] - v[y]) % 256), 15,
         IF v[x] < v[y] THEN 0 ELSE 1)

\* v[0xF] is written first, then v[x] is shifted (v[x] as it then is)
op_8x06(x) ==
    LET r1 == SetV(Same, 15, v[x] % 2)
    IN  SetV(r1, x, r1.v[x] \div 2)

\* a reverse subtraction that sets the flag only when Vy > Vx
op_8xy7_strict(x, y) ==
    SetV(SetV(Same, x, (v[y] - v[x]) % 256), 15,
         IF v[y] <= v[x] THEN 0 ELSE 1)

op_8xy7(x, y) ==
    SetV(SetV(Same, x, (v[y] - v[x]) % 256), 15,
         IF v[y] < v[x] THEN 0 ELSE 1)

op_8xye(x) ==
    LET r1 == SetV(Same, 15, v[x] \div 128)
    IN  SetV(r1, x, (r1.v[x] * 2) % 256)

op_9xy0(x, y) == [Same EXCEPT !.pcc = IF v[x] # v[y] THEN SkipPC ELSE NextPC]

op_annn(nnn) == [Same EXCEPT !.i = nnn]

\* a jump to V0 + nnn reduced to twelve bits
op_bnnn_masked(nnn) == [Same EXCEPT !.pcc = JumpPC((v[0] + nnn) % 4096)]

op_bnnn(nnn) == [Same EXCEPT !.pcc = JumpPC(v[0] + nnn)]

\* a generator that yields every byte
RandomRangeInclusive == 0..255

\* rng.gen_range(0..255 as u8): the upper end is excluded
RandomRange == 0..254

op_cxnn(x, nn, rnd) == SetV(Same, x, BitAnd(rnd, nn))

\* The inner loop of op_dxyn: the pixels width..7 of one sprite row.  x_coord
\* is computed per pixel from v[x] as it is then; y_coord was computed once
\* for the row.
RECURSIVE DrawRow(_, _, _, _, _)
DrawRow(r, x, y_coord, height, width) ==
    IF width = 8 THEN r
    ELSE IF i + height >= MemSize THEN Panic(r)
    ELSE LET x_coord == IF ~wrapping_enabled THEN r.v[x] + width
                        ELSE (r.v[x] + width) % ScreenWidth
             color == (memory[i + height] \div (2 ^ (7 - width))) % 2
             p == set_pos(r.screen, x_coord, y_coord, color)
             r1 == [r EXCEPT !.screen = p.screen,
                             !.v = [r.v EXCEPT ![15] = BitOr(r.v[15], p.changed)]]
         IN  DrawRow(r1, x, y_coord, height, width + 1)

\* The outer loop of op_dxyn: the rows height..n-1.
RECURSIVE DrawRows(_, _, _, _, _)
DrawRows(r, x, y, n, height) ==
    IF height >= n \/ r.panic THEN r
    ELSE LET y_coord == IF ~wrapping_enabled THEN r.v[y] + height
                        ELSE (r.v[y] + height) % ScreenHeight
         IN  DrawRows(DrawRow(r, x, y_coord, height, 0), x, y, n, height + 1)

\* a draw that does not reset VF first
op_dxyn_keeps_vf(x, y, n, log) ==
    LET r == DrawRows(Same, x, y, n, 0)
    IN  IF ~r.panic /\ draw_panics(stack, log) THEN Panic(r) ELSE r

\* log is the instruction log as it is when the opcode runs
op_dxyn(x, y, n, log) ==
    LET r == DrawRows(SetV(Same, 15, 0), x, y, n, 0)
    IN  IF ~r.panic /\ draw_panics(stack, log) THEN Panic(r) ELSE r

(***************************************************************************)
(* Keypad.                                                                 *)
(***************************************************************************)
\* a query that takes the key modulo 16
is_pressed_masked(key) == keypad[key % 16]

is_pressed(key) == IF key \in 0..15 THEN keypad[key] ELSE FALSE

PressedKeys == {k \in 0..15 : keypad[k]}

\* the first element the iterator over the keypad yields that is true
FirstPressed == CHOOSE k \in PressedKeys : \A j \in PressedKeys : k <= j

op_ex9e(x) == [Same EXCEPT !.pcc = IF is_pressed(v[x]) THEN SkipPC ELSE NextPC]

op_exa1(x) == [Same EXCEPT !.pcc = IF ~is_pressed(v[x]) THEN SkipPC ELSE NextPC]

\* `for i in keypad.iter() { if *i { v[x] = *i as u8; return Next } }`:
\* i is the element (a bool), not its index
op_fx0a(x) ==
    IF PressedKeys # {}
    THEN SetV(Same, x, BoolAsU8(keypad[FirstPressed]))
    ELSE [Same EXCEPT !.pcc = JumpPC(pc)]

\* an addition to I that reports in VF whether I went past 0xFFF
op_fx1e_flag(x) ==
    SetV([Same EXCEPT !.i = i + v[x]], 15, IF i + v[x] > 4095 THEN 1 ELSE 0)

op_fx1e(x) == [Same EXCEPT !.i = i + v[x]]

op_fx29(x) == [Same EXCEPT !.i = v[x] * 5]

\* mem after bytes[k], bytes[k+1], ... are written to mem[base + k - 1], ...
\* in order, up to the first write past the end of memory
RECURSIVE StoreFrom(_, _, _, _)
StoreFrom(mem, base, bytes, k) ==
    IF k > Len(bytes) \/ base + k - 1 >= MemSize THEN mem
    ELSE StoreFrom([mem EXCEPT ![base + k - 1] = bytes[k]], base, bytes, k + 1)

\* Writes bytes[1], bytes[2], ... to mem[base], mem[base+1], ... in order; the
\* first write past the end of memory panics, the earlier ones have happened.
StoreBytes(r, base, bytes) ==
    [r EXCEPT !.memory = StoreFrom(r.memory, base, bytes, 1),
              !.panic = base + Len(bytes) > MemSize]

\* a BCD conversion whose middle digit is Vx / 10
op_fx33_tens(x) ==
    StoreBytes(Same, i, <<v[x] \div 100, v[x] \div 10, v[x] % 10>>)

op_fx33(x) ==
    StoreBytes(Same, i, <<v[x] \div 100, (v[x] % 100) \div 10, v[x] % 10>>)

\* a store of V0..V(x-1), Vx left out
op_fx55_exclusive(x) == StoreBytes(Same, i, [k \in 1..x |-> v[k - 1]])

op_fx55(x) == StoreBytes(Same, i, [k \in 1..(x + 1) |-> v[k - 1]])

\* a load that takes its addresses modulo the size of memory
op_fx65_wrapping(x) ==
    [Same EXCEPT !.v = [k \in 0..(NumRegs - 1) |->
                          IF k <= x THEN memory[(i + k) % MemSize] ELSE v[k]]]

\* v[0], v[1], ... are loaded in order; the first read past the end of memory
\* panics, the earlier loads have happened
op_fx65(x) ==
    [Same EXCEPT !.v = [k \in 0..(NumRegs - 1) |->
                          IF k <= x /\ i + k < MemSize THEN memory[i + k]
                          ELSE v[k]],
                 !.panic = i + x >= MemSize]

(***************************************************************************)
(* Cpu::execute_instr: the opcode selected by the match, for the opcodes   *)
(* that do not go through the timers mutex.  rnd is the number the random  *)
(* generator yields, log the instruction log with instr in it.             *)
(***************************************************************************)
\* the no-match arm giving NextPCValue::Skip instead
op_none_skip == [Same EXCEPT !.pcc = SkipPC]

op_none == Same

execute_instr(instr, rnd, log) ==
    LET op == Decode(instr)
        nnn == AddrNNN(instr)
        nn == ByteNN(instr)
        n == Nibble3(instr)
        x == Nibble1(instr)
        y == Nibble2(instr)
    IN  CASE op = "00e0" -> op_00e0
          [] op = "00ee" -> op_00ee
          [] op = "1nnn" -> op_1nnn(nnn)
          [] op = "2nnn" -> op_2nnn(nnn)
          [] op = "3xkk" -> op_3xkk(x, nn)
          [] op = "4xkk" -> op_4xkk(x, nn)
          [] op = "5xy0" -> op_5xy0(x, y)
          [] op = "6xnn" -> op_6xnn(x, nn)
          [] op = "7xnn" -> op_7xnn(x, nn)
          [] op = "8xy0" -> op_8xy0(x, y)
          [] op = "8xy1" -> op_8xy1(x, y)
          [] op = "8xy2" -> op_8xy2(x, y)
          [] op = "8xy3" -> op_8xy3(x, y)
          [] op = "8xy4" -> op_8xy4(x, y)
          [] op = "8xy5" -> op_8xy5(x, y)
          [] op = "8x06" -> op_8x06(x)
          [] op = "8xy7" -> op_8xy7(x, y)
          [] op = "8xye" -> op_8xye(x)
          [] op = "9xy0" -> op_9xy0(x, y)
          [] op = "annn" -> op_annn(nnn)
          [] op = "bnnn" -> op_bnnn(nnn)
          [] op = "cxnn" -> op_cxnn(x, nn, rnd)
          [] op = "dxyn" -> op_dxyn(x, y, n, log)
          [] op = "ex9e" -> op_ex9e(x)
          [] op = "exa1" -> op_exa1(x)
          [] op = "fx0a" -> op_fx0a(x)
          [] op = "fx1e" -> op_fx1e(x)
          [] op = "fx29" -> op_fx29(x)
          [] op = "fx33" -> op_fx33(x)
          [] op = "fx55" -> op_fx55(x)
          [] op = "fx65" -> op_fx65(x)
          [] OTHER -> op_none

\* `match pc_change`: the new program counter
NewPC(pcc) ==
    CASE pcc.kind = "Next" -> pc + 2
      [] pcc.kind = "Skip" -> pc + 4
      [] pcc.kind = "Jump" -> pcc.addr

\* the big-endian instruction at memory[pc], memory[pc + 1]
Fetch == memory[pc] * 256 + memory[pc + 1]

\* instr_log.insert(0, instr) without the truncate(12)
LogInsertUntruncated(instr) == <<instr>> \o instr_log

\* instr_log.insert(0, instr); instr_log.truncate(12)
LogInsert(instr) == SubSeq(<<instr>> \o instr_log, 1, Min(Len(instr_log) + 1, LogSize))

\* cycle without its test of the pause flag
PausedIgnored == FALSE

\* `*self.pause.borrow()` at the top of cycle
Paused == pause

(***************************************************************************)
(* The timer opcodes, on the pair read under the lock.                     *)
(***************************************************************************)
\* the value op_fx07 puts in v[x]
op_fx07(pair) == pair[1]

\* the pair op_fx15 stores
op_fx15(x, pair) == <<v[x], pair[2]>>

\* the pair op_fx18 stores
op_fx18(x, pair) == <<pair[1], v[x]>>

(***************************************************************************)
(* Mutexes and the channel.                                                *)
(***************************************************************************)
\* a lock that does not wait for the holder
CanLockAlways(holder) == TRUE

\* Mutex::lock returns once no thread holds the mutex
CanLock(holder) == holder = "free"

\* a loop that breaks on Err(Disconnected) only
MustEndDisconnectedOnly(ch) == ch = "disconnected"

\* rx.try_recv() is Ok(_) or Err(Disconnected): the timer loop breaks
MustEnd(ch) == ch \in {"sent", "disconnected"}

\* handler.join() returns once the timer thread has ended
Joined == timer_pc = "done"

\* a decrement without its test, wrapping at zero
DecTimerWrapping(t) == (t - 1) % 256

\* one timer of the pair after a tick
DecTimer(t) == IF t > 0 THEN t - 1 ELSE t

\* a flag write that sets the flag in both branches
BeepFlagNeverCleared(sound_timer) == TRUE

\* the two branches of the flag write swapped
BeepFlagSwapped(sound_timer) == sound_timer = 0

\* the beep flag the tick writes, from the decremented sound timer
BeepFlag(sound_timer) == sound_timer # 0

(***************************************************************************)
(* Programs and inputs.                                                    *)
(***************************************************************************)
WordsToBytes(ws) ==
    [k \in 1..(2 * Len(ws)) |->
        IF k % 2 = 1 THEN ws[(k + 1) \div 2] \div 256 ELSE ws[k \div 2] % 256]

\* V0 := TimerStart; delay := V0; sound := V0; V1 := delay; sound := V2 (= 0);
\* then a jump to itself.
RomTimers ==
    WordsToBytes(<< \h6000 + TimerStart, \hF015, \hF018, \hF107, \hF218, \h120A >>)

\* Wait for a key into V3, then a jump to itself.
RomKeys == WordsToBytes(<< \hF30A, \h1202 >>)

\* V1 := 5; I := 0x123; words that match no pattern; a return on the empty stack.
RomNoMatch ==
    WordsToBytes(<< \h6105, \hA123, \h0123, \h00E1, \h5121, \h9AB5, \h8128,
                    \h812D, \h812F, \hE19F, \hF1FF, \h00EE >>)

\* V0 := 1; sound := V0; then a jump to itself.
RomBeep == WordsToBytes(<< \h6001, \hF018, \h1204 >>)

Configs == { [rom |-> RomTimers, wrapping |-> FALSE],
             [rom |-> RomKeys, wrapping |-> FALSE],
             [rom |-> RomNoMatch, wrapping |-> FALSE] }

\* The sets of CHIP-8 keys the keyboard snapshot can show held.
KeyChoices == { {}, {5}, {2, 11} }

(***************************************************************************)
(* Initial state: Cpu::new, Graphics::new, Keypad::new and main up to the  *)
(* loop, the timer thread spawned.                                         *)
(***************************************************************************)
InitOf(cfg) ==
    /\ memory = load_rom(cfg.rom, load_fonts([a \in 0..(MemSize - 1) |-> 0]))
    /\ wrapping_enabled = cfg.wrapping
    /\ v = [k \in 0..(NumRegs - 1) |-> 0]
    /\ i = 0
    /\ pc = RomStart
    /\ stack = <<>>
    /\ instr_log = <<>>
    /\ screen = BlankScreen
    /\ keypad = [k \in 0..15 |-> FALSE]
    /\ pause = FALSE
    /\ wants_to_quit = FALSE
    /\ timers = <<0, 0>>
    /\ timers_lock = "free"
    /\ timers_poisoned = FALSE
    /\ must_beep = FALSE
    /\ must_beep_lock = "free"
    /\ beeping = FALSE
    /\ chan = "empty"
    /\ main_pc = "loop"
    /\ timer_pc = "check"
    /\ cpu_local = <<0, 0>>
    /\ timer_local = <<0, 0>>

Init == \E cfg \in Configs : InitOf(cfg)

(***************************************************************************)
(* The main thread.                                                        *)
(***************************************************************************)
\* a poll that sets the held keys without clearing the snapshot first
poll_keyboard_keeps(keys, space, quit) ==
    /\ keypad' = [k \in 0..15 |-> keypad[k] \/ k \in keys]
    /\ pause' = IF space THEN ~pause ELSE pause
    /\ wants_to_quit' = quit

\* Keypad::poll_keyboard: the snapshot is cleared and set from the held keys;
\* a held Space toggles the pause flag; quit is the Quit event or Escape.
\* (Up and Down only change the period of the main loop's sleep.)
poll_keyboard(keys, space, quit) ==
    /\ keypad' = [k \in 0..15 |-> k \in keys]
    /\ pause' = IF space THEN ~pause ELSE pause
    /\ wants_to_quit' = quit

\* `while !(cpu.finished() || wants_to_quit)` true: wants_to_quit = cpu.poll_keypad()
main_poll ==
    /\ main_pc = "loop"
    /\ ~wants_to_quit
    /\ \E keys \in KeyChoices, space \in BOOLEAN, quit \in BOOLEAN :
          poll_keyboard(keys, space, quit)
    /\ main_pc' = "cycle"
    /\ UNCHANGED <<cpu_vars, instr_log, wrapping_enabled, timers, timers_lock,
                   timers_poisoned, must_beep, must_beep_lock, beeping, chan,
                   timer_pc, cpu_local, timer_local>>

\* the loop condition false
main_exit_loop ==
    /\ main_pc = "loop"
    /\ wants_to_quit
    /\ main_pc' = "send"
    /\ UNCHANGED <<cpu_vars, instr_log, keypad, pause, wrapping_enabled,
                   wants_to_quit, timers, timers_lock, timers_poisoned,
                   must_beep, must_beep_lock, beeping, chan, timer_pc,
                   cpu_local, timer_local>>

\* A panic of the main thread: it unwinds, which drops tx, and the process
\* ends; the timer thread may still run until it does.
MainPanics ==
    /\ main_pc' = "panicked"
    /\ chan' = "disconnected"

\* Cpu::cycle.  A timer opcode is fetched and logged here and goes on at
\* cpu_timers_lock, where it waits for the mutex.
cycle ==
    /\ main_pc = "cycle"
    /\ IF Paused
       THEN /\ main_pc' = "beep_lock"
            /\ UNCHANGED <<cpu_vars, instr_log, chan>>
       ELSE IF pc + 1 >= MemSize
       THEN /\ MainPanics
            /\ UNCHANGED <<cpu_vars, instr_log>>
       ELSE LET instr == Fetch
                log == LogInsert(instr)
            IN  /\ instr_log' = log
                /\ IF Decode(instr) \in TimerOps
                   THEN /\ main_pc' = "timers_lock"
                        /\ UNCHANGED <<cpu_vars, chan>>
                   ELSE \E rnd \in (IF Decode(instr) = "cxnn" THEN RandomRange ELSE {0}) :
                          LET r == execute_instr(instr, rnd, log)
                          IN  /\ memory' = r.memory
                              /\ v' = r.v
                              /\ i' = r.i
                              /\ stack' = r.stack
                              /\ screen' = r.screen
                              /\ IF r.panic
                                 THEN MainPanics /\ pc' = pc
                                 ELSE /\ pc' = NewPC(r.pcc)
                                      /\ main_pc' = "beep_lock"
                                      /\ chan' = chan
    /\ UNCHANGED <<keypad, pause, wrapping_enabled, wants_to_quit, timers,
                   timers_lock, timers_poisoned, must_beep, must_beep_lock,
                   beeping, timer_pc, cpu_local, timer_local>>

\* op_fx07 / op_fx15 / op_fx18 at `self.timers.lock()`.  On a poisoned mutex
\* lock() is an Err: op_fx07 unwraps it and panics, op_fx15 and op_fx18 skip
\* their body.  op_fx07 copies the pair and drops the guard in one statement.
cpu_timers_lock ==
    /\ main_pc = "timers_lock"
    /\ CanLock(timers_lock)
    /\ LET op == Decode(Fetch)
           x == Nibble1(Fetch)
       IN  IF op = "fx07"
           THEN IF timers_poisoned
                THEN /\ MainPanics
                     /\ UNCHANGED <<v, pc, timers_lock, cpu_local>>
                ELSE /\ v' = [v EXCEPT ![x] = op_fx07(timers)]
                     /\ pc' = pc + 2
                     /\ main_pc' = "beep_lock"
                     /\ UNCHANGED <<chan, timers_lock, cpu_local>>
           ELSE IF timers_poisoned
                THEN /\ pc' = pc + 2
                     /\ main_pc' = "beep_lock"
                     /\ UNCHANGED <<v, chan, timers_lock, cpu_local>>
                ELSE /\ timers_lock' = "main"
                     /\ cpu_local' = timers
                     /\ main_pc' = "timers_store"
                     /\ UNCHANGED <<v, pc, chan>>
    /\ UNCHANGED <<memory, i, stack, screen, instr_log, keypad, pause,
                   wrapping_enabled, wants_to_quit, timers, timers_poisoned,
                   must_beep, must_beep_lock, beeping, timer_pc, timer_local>>

\* op_fx15 / op_fx18: `*timers = ...`, the guard dropped, NextPCValue::Next
cpu_timers_store ==
    /\ main_pc = "timers_store"
    /\ LET op == Decode(Fetch)
           x == Nibble1(Fetch)
       IN  timers' = IF op = "fx15" THEN op_fx15(x, cpu_local)
                     ELSE op_fx18(x, cpu_local)
    /\ timers_lock' = "free"
    /\ cpu_local' = <<0, 0>>
    /\ pc' = pc + 2
    /\ main_pc' = "beep_lock"
    /\ UNCHANGED <<memory, v, i, stack, screen, instr_log, keypad, pause,
                   wrapping_enabled, wants_to_quit, timers_poisoned,
                   must_beep, must_beep_lock, beeping, chan, timer_pc,
                   timer_local>>

\* `must_beep.lock().unwrap()` in the condition of main's if
main_beep_lock ==
    /\ main_pc = "beep_lock"
    /\ CanLock(must_beep_lock)
    /\ must_beep_lock' = "main"
    /\ main_pc' = "beep_read"
    /\ UNCHANGED <<cpu_vars, instr_log, keypad, pause, wrapping_enabled,
                   wants_to_quit, timers, timers_lock, timers_poisoned,
                   must_beep, beeping, chan, timer_pc, cpu_local, timer_local>>

\* the flag read with the guard kept
main_beep_read_keeps_guard ==
    /\ main_pc = "beep_read"
    /\ beeping' = must_beep
    /\ main_pc' = "sleep"
    /\ UNCHANGED <<cpu_vars, instr_log, keypad, pause, wrapping_enabled,
                   wants_to_quit, timers, timers_lock, timers_poisoned,
                   must_beep, must_beep_lock, chan, timer_pc, cpu_local,
                   timer_local>>

\* the flag read, the guard dropped, then beep() or stop_beep()
main_beep_read ==
    /\ main_pc = "beep_read"
    /\ beeping' = must_beep
    /\ must_beep_lock' = "free"
    /\ main_pc' = "sleep"
    /\ UNCHANGED <<cpu_vars, instr_log, keypad, pause, wrapping_enabled,
                   wants_to_quit, timers, timers_lock, timers_poisoned,
                   must_beep, chan, timer_pc, cpu_local, timer_local>>

\* thread::sleep at the end of the loop body
main_sleep ==
    /\ main_pc = "sleep"
    /\ main_pc' = "loop"
    /\ UNCHANGED <<cpu_vars, instr_log, keypad, pause, wrapping_enabled,
                   wants_to_quit, timers, timers_lock, timers_poisoned,
                   must_beep, must_beep_lock, beeping, chan, timer_pc,
                   cpu_local, timer_local>>

\* `let _ = tx.send(())`
main_send ==
    /\ main_pc = "send"
    /\ chan' = IF timer_pc = "done" THEN chan ELSE "sent"
    /\ main_pc' = "join"
    /\ UNCHANGED <<cpu_vars, instr_log, keypad, pause, wrapping_enabled,
                   wants_to_quit, timers, timers_lock, timers_poisoned,
                   must_beep, must_beep_lock, beeping, timer_pc, cpu_local,
                   timer_local>>

\* `handler.join().unwrap()`, then main returns
main_join ==
    /\ main_pc = "join"
    /\ Joined
    /\ main_pc' = "done"
    /\ UNCHANGED <<cpu_vars, instr_log, keypad, pause, wrapping_enabled,
                   wants_to_quit, timers, timers_lock, timers_poisoned,
                   must_beep, must_beep_lock, beeping, chan, timer_pc,
                   cpu_local, timer_local>>

MainNext ==
    \/ main_poll
    \/ main_exit_loop
    \/ cycle
    \/ cpu_timers_lock
    \/ cpu_timers_store
    \/ main_beep_lock
    \/ main_beep_read
    \/ main_sleep
    \/ main_send
    \/ main_join

(***************************************************************************)
(* The timer thread (Timer::run).                                          *)
(***************************************************************************)
\* `match self.rx.try_recv()` at the top of the loop
timer_check ==
    /\ timer_pc = "check"
    /\ IF MustEnd(chan)
       THEN /\ timer_pc' = "done"
            /\ chan' = IF chan = "sent" THEN "empty" ELSE chan
       ELSE /\ timer_pc' = "lock"
            /\ chan' = chan
    /\ UNCHANGED <<cpu_vars, instr_log, keypad, pause, wrapping_enabled,
                   wants_to_quit, timers, timers_lock, timers_poisoned,
                   must_beep, must_beep_lock, beeping, main_pc, cpu_local,
                   timer_local>>

\* a tick that skips its body while the pause flag is set
timer_lock_unless_paused ==
    /\ timer_pc = "lock"
    /\ CanLock(timers_lock)
    /\ IF timers_poisoned \/ pause
       THEN /\ timer_pc' = "sleep"
            /\ UNCHANGED <<timers_lock, timer_local>>
       ELSE /\ timers_lock' = "timer"
            /\ timer_local' = <<DecTimer(timers[1]), DecTimer(timers[2])>>
            /\ timer_pc' = IF timers[2] > 0 THEN "beep" ELSE "store"
    /\ UNCHANGED <<cpu_vars, instr_log, keypad, pause, wrapping_enabled,
                   wants_to_quit, timers, timers_poisoned, must_beep,
                   must_beep_lock, beeping, chan, main_pc, cpu_local>>

\* `if let Ok(mut timers) = self.timers.lock()`: the pair copied into the
\* locals and the locals decremented, up to the first access to must_beep.
\* On a poisoned mutex the body is skipped.
timer_lock ==
    /\ timer_pc = "lock"
    /\ CanLock(timers_lock)
    /\ IF timers_poisoned
       THEN /\ timer_pc' = "sleep"
            /\ UNCHANGED <<timers_lock, timer_local>>
       ELSE /\ timers_lock' = "timer"
            /\ timer_local' = <<DecTimer(timers[1]), DecTimer(timers[2])>>
            /\ timer_pc' = IF timers[2] > 0 THEN "beep" ELSE "store"
    /\ UNCHANGED <<cpu_vars, instr_log, keypad, pause, wrapping_enabled,
                   wants_to_quit, timers, timers_poisoned, must_beep,
                   must_beep_lock, beeping, chan, main_pc, cpu_local>>

\* `*self.must_beep.lock().unwrap() = ...`, inside `if sound_timer > 0`
timer_beep ==
    /\ timer_pc = "beep"
    /\ CanLock(must_beep_lock)
    /\ must_beep' = BeepFlag(timer_local[2])
    /\ timer_pc' = "store"
    /\ UNCHANGED <<cpu_vars, instr_log, keypad, pause, wrapping_enabled,
                   wants_to_quit, timers, timers_lock, timers_poisoned,
                   must_beep_lock, beeping, chan, main_pc, cpu_local,
                   timer_local>>

\* `*timers = (delay_timer, sound_timer)` and the guard dropped
timer_store ==
    /\ timer_pc = "store"
    /\ timers' = timer_local
    /\ timers_lock' = "free"
    /\ timer_local' = <<0, 0>>
    /\ timer_pc' = "sleep"
    /\ UNCHANGED <<cpu_vars, instr_log, keypad, pause, wrapping_enabled,
                   wants_to_quit, timers_poisoned, must_beep, must_beep_lock,
                   beeping, chan, main_pc, cpu_local>>

\* thread::sleep at the end of the loop body
timer_sleep ==
    /\ timer_pc = "sleep"
    /\ timer_pc' = "check"
    /\ UNCHANGED <<cpu_vars, instr_log, keypad, pause, wrapping_enabled,
                   wants_to_quit, timers, timers_lock, timers_poisoned,
                   must_beep, must_beep_lock, beeping, chan, main_pc,
                   cpu_local, timer_local>>

TimerNext ==
    \/ timer_check
    \/ timer_lock
    \/ timer_beep
    \/ timer_store
    \/ timer_sleep

Next == MainNext \/ TimerNext

Spec == Init /\ [][Next]_vars

\* Both threads are scheduled fairly: a thread that can take a step takes one.
\* The behaviours under fairness are those of the program RomBeep.
FairInit == InitOf([rom |-> RomBeep, wrapping |-> FALSE])

FairSpec ==
    FairInit /\ [][Next]_vars /\ WF_vars(MainNext) /\ WF_vars(TimerNext)

\* The behaviours of RomBeep in which neither thread is kept out of a mutex
\* for ever: each thread sleeps in every iteration while it holds no mutex,
\* so the mutex a thread waits for is free again and again.
LockSpec ==
    FairInit /\ [][Next]_vars /\ SF_vars(MainNext) /\ SF_vars(TimerNext)

\* The value the long beep program loads into the sound timer.
SoundStart == 2

\* V0 := n; sound := V0; then a jump to itself
RomSound(n) == WordsToBytes(<< \h6000 + n, \hF018, \h1204 >>)

\* The behaviours of the programs that write the sound timer once, with 1 and
\* with SoundStart, in which the timer thread keeps ticking: it is not kept
\* out of a mutex for ever, since the main thread holds none while it sleeps
\* at the end of every iteration.
SoundInit == \E n \in {1, SoundStart} : InitOf([rom |-> RomSound(n), wrapping |-> FALSE])

SoundSpec ==
    SoundInit /\ [][Next]_vars /\ WF_vars(MainNext) /\ SF_vars(TimerNext)

(***************************************************************************)
(* A fault outside the two threads' own code: the timers mutex becomes     *)
(* poisoned, as if a holder of its guard had panicked.  Neither thread of  *)
(* the program panics while it holds the guard, so the program never       *)
(* poisons the mutex by itself; the code's handling of LockResult::Err is  *)
(* exercised under SpecPoison only.                                        *)
(***************************************************************************)
timers_poison ==
    /\ ~timers_poisoned
    /\ timers_lock = "free"
    /\ main_pc \notin {"panicked", "done"}
    /\ timers_poisoned' = TRUE
    /\ UNCHANGED <<cpu_vars, instr_log, keypad, pause, wrapping_enabled,
                   wants_to_quit, timers, timers_lock, must_beep,
                   must_beep_lock, beeping, chan, main_pc, timer_pc,
                   cpu_local, timer_local>>

SpecPoison == Init /\ [][Next \/ timers_poison]_vars

(***************************************************************************)
(* The interpreter alone: cycle() called again and again on a Cpu built    *)
(* with one of the programs below, with no key held, no keyboard event and *)
(* the timers left at (0,0).                                               *)
(***************************************************************************)
\* the instruction word with the nibbles a, b, c, d
Word(a, b, c, d) == 4096 * a + 256 * b + 16 * c + d

\* the instruction word with first nibble a, register x and byte nn
WordXNN(a, x, nn) == 4096 * a + 256 * x + nn

\* ws followed by a jump to itself
Halted(ws) == Append(ws, \h1000 + RomStart + 2 * Len(ws))

\* 0x200 calls A (0x208), then B (0x20C), then loops at 0x204;
\* A calls B and returns; B returns.
RomCalls ==
    << \h2208, \h220C, \h1204, \h0000, \h220C, \h00EE, \h00EE >>

\* a return on the empty stack; a call, its return, a return on the empty stack
RomsReturn == { << \h00EE >>, << \h2204, \h00EE, \h00EE >> }

\* V0 := 0xFF; I := 0xFFF; I += V0 (I = 0x10FE); then op
RomHighI(op) == << \h60FF, \hAFFF, \hF01E, op >>

\* Programs that address memory at its end and past it: jumps to 0xFFF, to
\* 0xFFE and (Bnnn) to 0xFFF + V0; BCD, register stores and loads and
\* sprite rows at I = 0xFFD..0xFFF and at I = 0x10FE.
RomsOutOfRange ==
    { << \h1FFF >>, << \h1FFE >>, << \h60FF, \hBFFF >>,
      << \h60FF, \hAFFE, \hF033 >>, << \h60FF, \hAFFF, \hF033 >>,
      << \h6011, \h6122, \hAFFF, \hF155 >>, << \hAFFF, \hF165 >>,
      << \hAFFF, \hD002 >>,
      RomHighI(\hF033), RomHighI(\hF055), RomHighI(\hF065), RomHighI(\hD001),
      Halted(<< \h60FF, \hAFFD, \hF033 >>),
      Halted(<< \h6011, \hAFFF, \hF055 >>),
      Halted(<< \hAFFF, \hF065 >>),
      Halted(<< \hAFFF, \hD001 >>),
      Halted(RomHighI(\hD000)) }

\* The number of nested calls of RomDeepCalls.
CallDepth == 13

\* CallDepth calls, each to the word after it, then a one-row sprite drawn
RomDeepCalls ==
    Halted([k \in 1..CallDepth |-> \h2000 + RomStart + 2 * k] \o << \hD001 >>)

\* V0 := 5; V0 := 10; V0 := V0 + V1; clear the screen.  Nothing follows:
\* the interpreter runs on through the zero bytes of memory.
RomEndToEnd == << \h6005, \h600A, \h8014, \h00E0 >>

\* The byte values and the register pairs <<x, y>> the arithmetic programs use.
ByteSamples == {0, 1, 127, 128, 255}
RegPairs == { <<0, 1>>, <<1, 15>>, <<15, 1>>, <<15, 15>>, <<3, 3>> }

\* Vx := a; Vy := b; then 8xy4, 8xy5 or 8xy7.  Vx := a; Vx += kk.
RomsArith ==
    { Halted(<< WordXNN(6, p[1], a), WordXNN(6, p[2], b), Word(8, p[1], p[2], op) >>) :
        p \in RegPairs, a \in ByteSamples, b \in ByteSamples, op \in {4, 5, 7} }
    \cup
    { Halted(<< WordXNN(6, x, a), WordXNN(7, x, kk) >>) :
        x \in {0, 15}, a \in ByteSamples, kk \in ByteSamples }

\* Vx := a; then 8x06 or 8x0E
RomsShift ==
    { Halted(<< WordXNN(6, x, a), Word(8, x, 0, op) >>) :
        x \in {1, 15}, a \in ByteSamples, op \in {6, 14} }

\* A program that draws: a jump over four bytes of sprite data (FF 81 at
\* 0x202, F0 0F at 0x204), then code at 0x206, then a jump to itself.
WithSprites(code) == Halted(<< \h1206, \hFF81, \hF00F >> \o code)

\* The coordinates the drawing programs load into V0 and V1.
XSamples == {0, 60, 63, 64, 250}
YSamples == {0, 31, 32}

\* V0 := xv; V1 := yv; I := 0x202; the sprite of n rows drawn at (V0, V1) twice
RomsDrawTwice ==
    { WithSprites(<< WordXNN(6, 0, xv), WordXNN(6, 1, yv), \hA202,
                     Word(13, 0, 1, n), Word(13, 0, 1, n) >>) :
        xv \in XSamples, yv \in YSamples, n \in {1, 2} }

\* The rows FF 81 drawn at (0, 0); V0 := xv; VF := vf; the same rows drawn at
\* (V0, 0) twice: at xv = 4 the first pixels of row 0 collide and the later
\* ones do not, at xv = 8 nothing collides, at xv = 0 everything does.
RomsCollide ==
    { WithSprites(<< \hA202, \hD012, WordXNN(6, 0, xv), WordXNN(6, 15, vf),
                     \hD012, \hD012 >>) :
        xv \in {0, 4, 8}, vf \in {0, 1} }

\* The rows FF 81 drawn at (0, 0), then drawn with VF as a coordinate
RomsDrawAtVF ==
    { WithSprites(<< \hA202, \hD012, w, w >>) : w \in { \hDF12, \hD0F2, \hDFF2 } }

RomsDraw == RomsDrawTwice \cup RomsCollide \cup RomsDrawAtVF

\* The rows FF 81 drawn at (0, 0), the rows F0 0F drawn at (60, 30), then the
\* screen cleared
RomClear ==
    WithSprites(<< \hA202, \hD012, \h603C, \h611E, \hA204, \hD012, \h00E0 >>)

\* Vx := val; I := 0x300; the BCD of Vx stored; a return on the empty stack:
\* every byte value in V0, the sample values in VF
RomsBcd ==
    { << WordXNN(6, 0, val), \hA300, \hF033, \h00EE >> : val \in Byte }
    \cup { << WordXNN(6, 15, val), \hA300, \hFF33, \h00EE >> : val \in ByteSamples }

\* The register indices x of the store and load programs.
RegSamples == {0, 1, 2, 15}

\* V0, V1, V2, VF := 0x11, 0x22, 0x33, 0x44; I := 0x300; V0..Vx stored and
\* loaded back.  The same registers, I := 0x200, V0..Vx loaded from the bytes
\* of the program.
RomsStoreLoad ==
    { Halted(<< \h6011, \h6122, \h6233, \h6F44, \hA300, Word(15, x, 5, 5),
                Word(15, x, 6, 5) >>) : x \in RegSamples }
    \cup { Halted(<< \h6011, \h6122, \h6233, \h6F44, \hA200, Word(15, x, 6, 5) >>) :
              x \in RegSamples }

\* Vx := random AND kk, then a return on the empty stack
RomsRandom ==
    { << WordXNN(12, 0, \hFF), \h00EE >>, << WordXNN(12, 1, \h0F), \h00EE >>,
      << WordXNN(12, 15, \hAA), \h00EE >> }

\* I := 0x123 and V0 := 0xFF added to it; VF := 7, I := 0xFFF and VF added
\* to it; Vx := val and I := the glyph of Vx, for x = 0 and x = 0xF
RomsIndex ==
    { Halted(<< \hA123, \h60FF, \hF01E >>), Halted(<< \h6F07, \hAFFF, \hFF1E >>) }
    \cup { Halted(<< WordXNN(6, x, val), \hAABC, Word(15, x, 2, 9) >>) :
              x \in {0, 15}, val \in {0, 9, 15, 16, 255} }

CpuPrograms ==
    {RomCalls, RomDeepCalls, RomEndToEnd, RomClear} \cup RomsReturn
        \cup RomsOutOfRange \cup RomsArith \cup RomsShift \cup RomsDraw
        \cup RomsBcd \cup RomsStoreLoad \cup RomsRandom \cup RomsIndex

\* Every program without wrapping; the drawing programs with wrapping too.
CpuConfigs ==
    {[rom |-> WordsToBytes(ws), wrapping |-> FALSE] : ws \in CpuPrograms}
    \cup {[rom |-> WordsToBytes(ws), wrapping |-> TRUE] : ws \in RomsDraw}

CpuInit == \E cfg \in CpuConfigs : InitOf(cfg)

\* main gets to `cpu.cycle()`: for the first time, or again after an
\* iteration of the loop in which the keyboard had nothing and must_beep was
\* as the audio device is
call_cycle ==
    /\ main_pc \in {"loop", "beep_lock"}
    /\ main_pc' = "cycle"
    /\ UNCHANGED <<cpu_vars, instr_log, keypad, pause, wrapping_enabled,
                   wants_to_quit, timers, timers_lock, timers_poisoned,
                   must_beep, must_beep_lock, beeping, chan, timer_pc,
                   cpu_local, timer_local>>

CpuNext == call_cycle \/ cycle

CpuSpec == CpuInit /\ [][CpuNext]_vars

(***************************************************************************)
(* The main loop alone: the main thread runs its loop (keyboard, cycle(),  *)
(* beep flag, sleep) while the timer thread has not been scheduled yet.    *)
(***************************************************************************)
\* The values the key programs load into the register they query.
KeySamples == {0, 5, 11, 21, 255}

\* V1 := kv; skip if key V1 is pressed; a word that matches no pattern; skip
\* if key V1 is not pressed; two more such words
RomsKeyQuery ==
    { Halted(<< WordXNN(6, 1, kv), \hE19E, \h0000, \hE1A1, \h0000, \h0000 >>) :
        kv \in KeySamples }

\* V0 := a; V1 := b; then 3005, 4005, 5010 and 9010, each followed by a word
\* that matches no pattern
RomsSkip ==
    { Halted(<< WordXNN(6, 0, a), WordXNN(6, 1, b), \h3005, \h0000, \h4005,
                \h0000, \h5010, \h0000, \h9010, \h0000, \h0000 >>) :
        a \in {5, 6}, b \in {5, 6} }

\* 0x200: V0 := 4; jump to 0x204 + V0; (two words jumped over); 0x208: call
\* 0x210; wait for a key into V1; jump to itself; (a word); 0x210: return
RomFlow ==
    << \h6004, \hB204, \h0000, \h0000, \h2210, \hF10A, \h120C, \h0000, \h00EE >>

\* V0 := 0xFF; jump to 0xFFF + V0
RomJumpFar == << \h60FF, \hBFFF >>

LoopPrograms == RomsKeyQuery \cup RomsSkip \cup {RomFlow, RomJumpFar}

LoopConfigs ==
    {[rom |-> WordsToBytes(ws), wrapping |-> FALSE] : ws \in LoopPrograms}
    \cup {[rom |-> RomTimers, wrapping |-> FALSE]}

LoopInit == \E cfg \in LoopConfigs : InitOf(cfg)

LoopNext ==
    \/ main_poll
    \/ main_exit_loop
    \/ cycle
    \/ cpu_timers_lock
    \/ cpu_timers_store
    \/ main_beep_lock
    \/ main_beep_read
    \/ main_sleep

LoopSpec == LoopInit /\ [][LoopNext]_vars

(***************************************************************************)
(* Steps named by the properties below.                                    *)
(***************************************************************************)
\* the main thread leaves cycle()
CycleStep == main_pc = "cycle" /\ main_pc' # "cycle"

\* a step of cycle() that fetches (not paused, PC and PC + 1 inside memory)
FetchingCycleStep == CycleStep /\ ~pause /\ pc + 1 < MemSize

\* the timer thread stores the pair: a tick completes
TickStoreStep == timer_pc = "store" /\ timer_pc' = "sleep"

\* the timer thread writes the beep flag
TickBeepStep == timer_pc = "beep" /\ timer_pc' # "beep"

\* the timer thread passes `self.timers.lock()`
TickLockStep == timer_pc = "lock" /\ timer_pc' # "lock"

\* the interpreter stores the pair for Fx15 / Fx18
Fx15StoreStep ==
    main_pc = "timers_store" /\ main_pc' # "timers_store" /\ Fetch % 256 = 21

Fx18StoreStep ==
    main_pc = "timers_store" /\ main_pc' # "timers_store" /\ Fetch % 256 = 24

\* the interpreter passes `self.timers.lock()` for the timer opcode at PC
CpuLockStep == main_pc = "timers_lock" /\ main_pc' # "timers_lock"

\* the opcode patterns of the specification's table
InOpcodeTable(instr) ==
    LET n0 == instr \div 4096
        n3 == instr % 16
        lo == instr % 256
    IN  \/ instr \in {224, 238}
        \/ n0 \in {1, 2, 3, 4, 6, 7, 10, 11, 12, 13}
        \/ n0 \in {5, 9} /\ n3 = 0
        \/ n0 = 8 /\ n3 \in {0, 1, 2, 3, 4, 5, 6, 7, 14}
        \/ n0 = 14 /\ lo \in {158, 161}
        \/ n0 = 15 /\ lo \in {7, 10, 21, 24, 30, 41, 51, 85, 101}

(***************************************************************************)
(* C1.  When the pause flag is set, a call of cycle() has no side effect:  *)
(* memory, V0..VF, I, PC, the stack, the framebuffer, the timer pair and   *)
(* the instruction log are the same after it as before, call after call.   *)
(***************************************************************************)
C1_PausedCycleNoEffect ==
    [][(CycleStep /\ pause) =>
          UNCHANGED <<memory, v, i, pc, stack, screen, timers, instr_log>>]_vars

\* a paused cycle() has just returned, on a machine that had run before
C1_Witness ==
    /\ pause
    /\ main_pc = "beep_lock"
    /\ instr_log # <<>>
    /\ pc > RomStart

(***************************************************************************)
(* C2.  Decoding is total: a word fetched at a valid PC that matches no    *)
(* opcode pattern of the table is never fatal, advances PC by exactly 2    *)
(* and leaves memory, registers, I, stack, framebuffer and the timer pair  *)
(* unchanged.                                                              *)
(***************************************************************************)
C2_NoMatchIsNoOp ==
    [][(FetchingCycleStep /\ ~InOpcodeTable(Fetch)) =>
          /\ main_pc' # "panicked"
          /\ pc' = pc + 2
          /\ UNCHANGED <<memory, v, i, stack, screen, timers>>]_vars

\* the last of the nine no-match words of RomNoMatch has been executed, the
\* registers and I still as the program set them before
C2_Witness ==
    /\ main_pc = "beep_lock"
    /\ ~pause
    /\ pc = RomStart + 22
    /\ Len(instr_log) >= 9
    /\ \A k \in 1..9 : ~InOpcodeTable(instr_log[k])
    /\ v[1] = 5
    /\ i = 291

(***************************************************************************)
(* C3.  The (delay, sound) pair is updated atomically under every          *)
(* interleaving of ticks with Fx15 / Fx18 / Fx07: Fx15 changes only delay, *)
(* Fx18 changes only sound, the pair a thread read under the lock is still *)
(* the pair when it stores (no decrement and no write is lost), and Fx07   *)
(* reads the delay the pair holds at the instant of the read.              *)
(***************************************************************************)
TimersHeldIntact ==
    /\ timer_pc \in {"beep", "store"} =>
          timer_local = <<IF timers[1] > 0 THEN timers[1] - 1 ELSE 0,
                          IF timers[2] > 0 THEN timers[2] - 1 ELSE 0>>
    /\ main_pc = "timers_store" => cpu_local = timers

C3_TimerPairAtomic ==
    [][/\ TimersHeldIntact'
       /\ Fx15StoreStep => timers' = <<v[Nibble1(Fetch)], timers[2]>>
       /\ Fx18StoreStep => timers' = <<timers[1], v[Nibble1(Fetch)]>>
       /\ (CpuLockStep /\ Fetch % 256 = 7) =>
              /\ v'[Nibble1(Fetch)] = timers[1]
              /\ timers' = timers
       /\ (~Fx15StoreStep /\ ~Fx18StoreStep /\ ~TickStoreStep) =>
              timers' = timers]_vars

\* the interpreter waits at Fx18 for the lock while a tick that decrements
\* the delay timer is in progress
C3_Witness ==
    /\ main_pc = "timers_lock"
    /\ Fetch % 256 = 24
    /\ timers_lock = "timer"
    /\ timer_pc = "store"
    /\ timers[1] > 0

(***************************************************************************)
(* C4.  A tick decrements delay and sound by exactly 1 each if non-zero    *)
(* and leaves them at 0 otherwise, never wrapping to 255: a pair at (0,0)  *)
(* stays (0,0) through any number of ticks.                                *)
(***************************************************************************)
C4_TickSaturates ==
    [][TickStoreStep =>
          /\ timers'[1] = IF timers[1] # 0 THEN timers[1] - 1 ELSE 0
          /\ timers'[2] = IF timers[2] # 0 THEN timers[2] - 1 ELSE 0
          /\ timers'[1] \in Byte /\ timers'[2] \in Byte]_vars

\* a tick on the pair (0,0), after the delay timer has counted down from
\* TimerStart, is about to store
C4_Witness ==
    /\ timer_pc = "store"
    /\ timer_local = <<0, 0>>
    /\ timers = <<0, 0>>
    /\ v[0] = TimerStart
    /\ pc >= RomStart + 6

C6_BeepIffSoundNonZero ==
    [][TickStoreStep => (must_beep' <=> (timers'[2] # 0))]_vars

(***************************************************************************)
(* C7.  No thread holds the timers lock across a blocking wait: while it   *)
(* holds the lock a thread neither sleeps nor waits for another mutex (the *)
(* must_beep mutex included) that the other thread holds.                  *)
(***************************************************************************)
C7_NoBlockingUnderTimersLock ==
    /\ timers_lock = "timer" =>
          /\ timer_pc # "sleep"
          /\ ~(timer_pc = "beep" /\ must_beep_lock # "free")
    /\ timers_lock = "main" =>
          /\ main_pc \notin {"sleep", "join"}
          /\ ~(main_pc = "beep_lock" /\ must_beep_lock # "free")

(***************************************************************************)
(* C8.  Shutdown: the timer thread leaves its loop only at the check at    *)
(* the top of an iteration, and does so exactly when the channel holds the *)
(* signal or is disconnected; main, once out of its loop, sends the signal *)
(* and then joins; main ends only after the timer thread has ended, and    *)
(* under fair scheduling main, once out of its loop, does end.             *)
(***************************************************************************)
C8_Shutdown ==
    /\ [][/\ (timer_pc = "check" /\ timer_pc' # "check") =>
                ((timer_pc' = "done") <=> (chan \in {"sent", "disconnected"}))
          /\ (timer_pc # "done" /\ timer_pc' = "done") => timer_pc = "check"
          /\ (main_pc = "send" /\ main_pc' # "send") =>
                (chan' = "sent" /\ main_pc' = "join")]_vars
    /\ [](main_pc = "done" => timer_pc = "done")
    /\ ((main_pc = "send") ~> (main_pc = "done"))

\* main has returned after the timer thread took the signal and ended
C8_Witness ==
    /\ main_pc = "done"
    /\ timer_pc = "done"
    /\ chan = "empty"
    /\ wants_to_quit

(***************************************************************************)
(* C9.  A failed acquisition of the timers lock (a poisoned mutex) is      *)
(* never fatal: the tick skips its update and the loop goes on; Fx15, Fx18 *)
(* and Fx07 skip their update and PC advances by 2.                        *)
(***************************************************************************)
C9_PoisonNeverFatal ==
    [][/\ (CpuLockStep /\ timers_poisoned) =>
              /\ main_pc' # "panicked"
              /\ pc' = pc + 2
              /\ timers' = timers
              /\ v' = v
       /\ (TickLockStep /\ timers_poisoned) =>
              /\ timer_pc' = "sleep"
              /\ timers' = timers
              /\ must_beep' = must_beep]_vars

(***************************************************************************)
(* C10.  Fx0A: while no key of the snapshot is pressed, a cycle() on Fx0A  *)
(* leaves PC and all registers unchanged; in a cycle() in which some key   *)
(* is pressed PC advances by 2 and Vx becomes the index of the first       *)
(* pressed key.                                                            *)
(***************************************************************************)
C10_Fx0AWaitsForKey ==
    [][(FetchingCycleStep /\ Fetch \div 4096 = 15 /\ Fetch % 256 = 10) =>
          IF \A k \in 0..15 : ~keypad[k]
          THEN pc' = pc /\ v' = v /\ i' = i
          ELSE /\ pc' = pc + 2
               /\ i' = i
               /\ \E k \in 0..15 :
                     /\ keypad[k]
                     /\ \A j \in 0..(k - 1) : ~keypad[j]
                     /\ v' = [v EXCEPT ![Nibble1(Fetch)] = k]]_vars

(***************************************************************************)
(* C11.  Call and return are last-in first-out: 2nnn at PC = p appends     *)
(* p + 2 to the stack and sets PC to nnn; 00EE on a non-empty stack sets   *)
(* PC to the last address pushed and leaves the stack as it was before     *)
(* that push, so PC is then just after a call instruction (p + 2, not p).  *)
(***************************************************************************)
C11_CallReturnLIFO ==
    [][/\ (FetchingCycleStep /\ Fetch \div 4096 = 2) =>
              /\ stack' = Append(stack, pc + 2)
              /\ pc' = Fetch % 4096
       /\ (FetchingCycleStep /\ Fetch = 238 /\ stack # <<>>) =>
              /\ stack = Append(stack', pc')
              /\ memory[pc' - 2] \div 16 = 2]_vars

\* RomCalls after its two top-level calls, one of them nested, have returned
C11_Witness ==
    /\ pc = RomStart + 4
    /\ stack = <<>>
    /\ Len(instr_log) = 6
    /\ instr_log[1] = 238
    /\ main_pc = "beep_lock"

(***************************************************************************)
(* C12.  00EE executed with the call stack empty is fatal: the main thread *)
(* panics, PC gets no value and nothing of the interpreter changes, and    *)
(* nothing is executed after it.                                           *)
(***************************************************************************)
C12_ReturnOnEmptyStackFatal ==
    [][/\ (FetchingCycleStep /\ Fetch = 238 /\ stack = <<>>) =>
              /\ main_pc' = "panicked"
              /\ UNCHANGED cpu_vars
       /\ main_pc = "panicked" =>
              /\ main_pc' = "panicked"
              /\ UNCHANGED <<cpu_vars, instr_log>>]_vars

\* the panic at the second return of 2204 00EE 00EE
C12_Witness ==
    /\ main_pc = "panicked"
    /\ stack = <<>>
    /\ pc = RomStart + 2
    /\ Fetch = 238
    /\ Len(instr_log) = 3

(***************************************************************************)
(* C13.  An access to memory outside 0..4095 is fatal and neither wraps    *)
(* nor clamps: a fetch at PC >= 4095, a Dxyn row read at I + row > 4095,   *)
(* an Fx33 write with I + 2 > 4095 and an Fx55 / Fx65 access with          *)
(* I + x > 4095 end the run, whatever produced I or PC (Fx1E and Bnnn      *)
(* included); no cell below I is written, and memory stays 4096 bytes.     *)
(***************************************************************************)
\* instr, executed now, addresses memory past 4095
OutOfRange(instr) ==
    LET n0 == instr \div 4096
        x == (instr \div 256) % 16
        n == instr % 16
        lo == instr % 256
    IN  \/ n0 = 13 /\ n >= 1 /\ i + (n - 1) > 4095
        \/ n0 = 15 /\ lo = 51 /\ i + 2 > 4095
        \/ n0 = 15 /\ lo \in {85, 101} /\ i + x > 4095

C13_OutOfRangeFatal ==
    [][/\ (CycleStep /\ ~pause /\ pc >= 4095) =>
              /\ main_pc' = "panicked"
              /\ UNCHANGED <<cpu_vars, instr_log>>
       /\ (FetchingCycleStep /\ OutOfRange(Fetch)) =>
              /\ main_pc' = "panicked"
              /\ pc' = pc
              /\ i' = i
              /\ \A a \in 0..4095 : a < i => memory'[a] = memory[a]
              /\ \A k \in 0..15 : i + k > 4095 => v'[k] = v[k]
       /\ DOMAIN memory' = 0..4095]_vars

\* the panic of Fx65 at I = 0x10FE, which Fx1E produced
C13_Witness ==
    /\ main_pc = "panicked"
    /\ i = 4350
    /\ pc = RomStart + 6
    /\ Fetch = 61541
    /\ v[0] = 255

(***************************************************************************)
(* C14.  The call stack is unbounded: with more than 12 return addresses   *)
(* on the stack every instruction that stays inside memory, 2nnn and Dxyn  *)
(* included, executes without a panic.                                     *)
(***************************************************************************)
C14_DeepStackNotFatal ==
    [][(FetchingCycleStep /\ Len(stack) > 12 /\ ~OutOfRange(Fetch)) =>
          main_pc' # "panicked"]_vars

(***************************************************************************)
(* C15.  End to end: the ROM bytes 60 05 60 0A 80 14 00 E0 at 0x200, four  *)
(* cycle() calls without pause.                                            *)
(***************************************************************************)
\* the ROM of the scenario is loaded and cycle() has returned four times
AfterEndToEnd ==
    /\ main_pc = "beep_lock"
    /\ instr_log = << \h00E0, \h8014, \h600A, \h6005 >>
    /\ \A k \in 1..8 : memory[RomStart + k - 1] = WordsToBytes(RomEndToEnd)[k]
    /\ \A a \in (RomStart + 8)..(MemSize - 1) : memory[a] = 0

\* C15 as stated: V0 = 15, V1 = 10, VF = 0, the framebuffer all zero and
\* PC = 0x208.
C15_EndToEndAsStated ==
    AfterEndToEnd =>
        /\ v[0] = 15
        /\ v[1] = 10
        /\ v[15] = 0
        /\ screen = BlankScreen
        /\ pc = \h208

\* C15 amended: both 6005 and 600A load V0 and V1 is never written, so
\* V0 = 10 + 0 = 10, V1 = 0, VF = 0, the framebuffer all zero and PC = 0x208.
C15_EndToEnd ==
    AfterEndToEnd =>
        /\ v = [k \in 0..15 |-> IF k = 0 THEN 10 ELSE 0]
        /\ screen = BlankScreen
        /\ pc = \h208
        /\ i = 0
        /\ stack = <<>>

C15_Witness == AfterEndToEnd /\ ~pause /\ v[0] = 10

(***************************************************************************)
(* C16.  Arithmetic wraps modulo 256: 7xkk gives Vx = (Vx + kk) mod 256    *)
(* and writes no flag; 8xy4 gives Vx = (Vx + Vy) mod 256, VF = 1 iff       *)
(* Vx + Vy > 255; 8xy5 gives Vx = (Vx - Vy) mod 256, VF = 1 iff Vx >= Vy;  *)
(* 8xy7 gives Vx = (Vy - Vx) mod 256, VF = 1 iff Vy >= Vx.  With x = 0xF   *)
(* VF holds the flag afterwards.  No other register changes.               *)
(***************************************************************************)
\* v with Vx := result and then VF := flag
WithFlag(x, result, flag) == [[v EXCEPT ![x] = result] EXCEPT ![15] = flag]

C16_ArithmeticWraps ==
    [][FetchingCycleStep =>
          LET n0 == Fetch \div 4096
              n3 == Fetch % 16
              x == (Fetch \div 256) % 16
              y == (Fetch \div 16) % 16
              kk == Fetch % 256
          IN  /\ n0 = 7 => v' = [v EXCEPT ![x] = (v[x] + kk) % 256]
              /\ (n0 = 8 /\ n3 = 4) =>
                    v' = WithFlag(x, (v[x] + v[y]) % 256,
                                  IF v[x] + v[y] > 255 THEN 1 ELSE 0)
              /\ (n0 = 8 /\ n3 = 5) =>
                    v' = WithFlag(x, (v[x] - v[y]) % 256,
                                  IF v[x] >= v[y] THEN 1 ELSE 0)
              /\ (n0 = 8 /\ n3 = 7) =>
                    v' = WithFlag(x, (v[y] - v[x]) % 256,
                                  IF v[y] >= v[x] THEN 1 ELSE 0)
              /\ (n0 = 7 \/ (n0 = 8 /\ n3 \in {4, 5, 7})) =>
                    /\ pc' = pc + 2
                    /\ v' \in [0..15 -> Byte]]_vars

\* VF = 128, V1 = 255, then 8F15: a borrow, and VF holds the flag 0 and not
\* the difference 129
C16_Witness ==
    /\ main_pc = "beep_lock"
    /\ Len(instr_log) = 3
    /\ instr_log[1] = \h8F15
    /\ instr_log[3] = \h6F80
    /\ v[1] = 255
    /\ v[15] = 0

(***************************************************************************)
(* C17.  Shifts: for every x, 0xF included, after 8xy6 VF is the least-    *)
(* significant bit Vx had and (x # 0xF) Vx is halved; after 8xyE VF is the *)
(* most-significant bit Vx had and (x # 0xF) Vx is doubled modulo 256; VF  *)
(* is 0 or 1 after a shift.                                                *)
(***************************************************************************)
C17_ShiftFlags ==
    [][FetchingCycleStep =>
          LET n0 == Fetch \div 4096
              n3 == Fetch % 16
              x == (Fetch \div 256) % 16
          IN  /\ (n0 = 8 /\ n3 = 6) =>
                    /\ v'[15] = v[x] % 2
                    /\ x # 15 => v'[x] = v[x] \div 2
              /\ (n0 = 8 /\ n3 = 14) =>
                    /\ v'[15] = v[x] \div 128
                    /\ x # 15 => v'[x] = (v[x] * 2) % 256
              /\ (n0 = 8 /\ n3 \in {6, 14}) => v'[15] \in {0, 1}]_vars

(***************************************************************************)
(* C18.  After a Dxyn that completes, VF = 1 if some pixel that was set is *)
(* now off and VF = 0 otherwise, whatever VF held before and in whatever   *)
(* order the pixels were plotted; I and the other registers are unchanged  *)
(* and PC has advanced by 2.  (No cell is plotted twice by one Dxyn, so a  *)
(* pixel was turned off by a plot iff it was set before and is off after.) *)
(***************************************************************************)
\* a cycle() step that executes Dxyn to its end
DrawStep ==
    FetchingCycleStep /\ Fetch \div 4096 = 13 /\ main_pc' # "panicked"

C18_CollisionFlag ==
    [][DrawStep =>
          /\ v'[15] = IF \E r \in 0..31, c \in 0..63 :
                            screen[r][c] = 1 /\ screen'[r][c] = 0
                      THEN 1 ELSE 0
          /\ \A k \in 0..14 : v'[k] = v[k]
          /\ i' = i
          /\ pc' = pc + 2]_vars

\* FF 81 drawn at (0, 0), then at (4, 0): the pixels at columns 4..7 of row 0
\* went off, the later pixels of the sprite went on, and VF = 1
C18_Witness ==
    /\ main_pc = "beep_lock"
    /\ ~wrapping_enabled
    /\ Len(instr_log) = 6
    /\ instr_log[1] = \hD012
    /\ instr_log[2] = \h6F00
    /\ v[0] = 4
    /\ screen[0][4] = 0
    /\ screen[0][11] = 1
    /\ screen[1][11] = 1
    /\ v[15] = 1

(***************************************************************************)
(* C19.  Drawing is an involution: with wrapping disabled and x, y # 0xF,  *)
(* the same Dxyn executed twice in a row gives back the framebuffer as it  *)
(* was before the first; from a clear screen, with a first sprite row 0xFF *)
(* fully on the screen, VF is 0 after the first draw and 1 after the       *)
(* second.                                                                 *)
(***************************************************************************)
\* a completed Dxyn without wrapping, neither coordinate register being VF
PlainDrawStep ==
    /\ DrawStep
    /\ ~wrapping_enabled
    /\ Nibble1(Fetch) # 15
    /\ Nibble2(Fetch) # 15

\* the bit the sprite of the Dxyn at PC has for the cell (r, c): bit 7 - w of
\* memory[I + h] for the cell w columns right of Vx and h rows below Vy
SpriteBit(r, c) ==
    LET h == r - v[Nibble2(Fetch)]
        w == c - v[Nibble1(Fetch)]
    IN  IF h \in 0..(Nibble3(Fetch) - 1) /\ w \in 0..7
        THEN (memory[i + h] \div (2 ^ (7 - w))) % 2
        ELSE 0

\* the Dxyn at PC is the instruction executed last, and the log shows that
\* no other Dxyn was executed before
SecondDrawFromClear ==
    /\ instr_log # <<>>
    /\ instr_log[1] = Fetch
    /\ Len(instr_log) < LogSize
    /\ \A k \in 2..Len(instr_log) : instr_log[k] \div 4096 # 13

\* the Dxyn at PC is the third D012 of a program of RomsCollide
SecondDrawOverSprite ==
    /\ Len(instr_log) = 6
    /\ instr_log[1] = Fetch
    /\ instr_log[4] = \hD012
    /\ instr_log[5] = \hA202

\* the framebuffer with the rows FF 81 at (0, 0)
SpriteAtOrigin ==
    [r \in 0..31 |-> [c \in 0..63 |->
        IF (r = 0 /\ c <= 7) \/ (r = 1 /\ c \in {0, 7}) THEN 1 ELSE 0]]

\* the Dxyn at PC has a first row 0xFF that lies inside the screen
FullRowOnScreen ==
    /\ Nibble3(Fetch) >= 1
    /\ i < MemSize
    /\ memory[i] = 255
    /\ v[Nibble1(Fetch)] + 7 < ScreenWidth
    /\ v[Nibble2(Fetch)] < ScreenHeight

C19_DrawTwiceRestores ==
    [][/\ PlainDrawStep =>
              \* a draw XORs a mask that the draw itself leaves as it is
              /\ \A r \in 0..31, c \in 0..63 :
                    screen'[r][c] = (screen[r][c] + SpriteBit(r, c)) % 2
              /\ memory' = memory /\ i' = i
              /\ v'[Nibble1(Fetch)] = v[Nibble1(Fetch)]
              /\ v'[Nibble2(Fetch)] = v[Nibble2(Fetch)]
       /\ (PlainDrawStep /\ SecondDrawFromClear) =>
              \* the second of two equal draws, the first made on a clear screen
              /\ screen' = BlankScreen
              /\ FullRowOnScreen => (v[15] = 0 /\ v'[15] = 1)
       /\ (PlainDrawStep /\ SecondDrawOverSprite) =>
              \* the second of two equal draws, the first made over a sprite
              screen' = SpriteAtOrigin]_vars

\* the row FF drawn twice at (0, 0) from a clear screen
C19_Witness ==
    /\ main_pc = "beep_lock"
    /\ ~wrapping_enabled
    /\ Len(instr_log) = 6
    /\ instr_log[1] = \hD011
    /\ instr_log[2] = \hD011
    /\ v[0] = 0
    /\ v[1] = 0
    /\ screen = BlankScreen
    /\ v[15] = 1

(***************************************************************************)
(* C20.  Coordinates.  Without wrapping a plot at x >= 64 or y >= 32       *)
(* leaves the framebuffer as it is, returns 0 and does not panic, and a    *)
(* Dxyn drops the pixels of the sprite that fall right of column 63 or     *)
(* below row 31.  With wrapping a plot acts on the cell (x mod 64,         *)
(* y mod 32): a plot at x = 64 acts on column 0, and a Dxyn plots every    *)
(* pixel of the sprite at its coordinates modulo 64 and 32.                *)
(***************************************************************************)
\* set_pos on the framebuffer as it is, at coordinates on and off the screen
PlotPolicy ==
    IF ~wrapping_enabled
    THEN \A p \in { <<64, 0>>, <<64, 31>>, <<262, 5>>, <<0, 32>>, <<63, 46>>,
                    <<64, 32>> } :
            set_pos(screen, p[1], p[2], 1) = [screen |-> screen, changed |-> 0]
    ELSE \A p \in { <<64, 0>>, <<0, 32>>, <<67, 37>>, <<262, 46>> } :
            LET q == set_pos(screen, p[1], p[2], 1)
                xx == p[1] % 64
                yy == p[2] % 32
            IN  /\ q.changed = screen[yy][xx]
                /\ q.screen = [screen EXCEPT ![yy][xx] = 1 - screen[yy][xx]]

\* the bit the sprite of the Dxyn at PC has for the cell (r, c) when the
\* coordinates wrap
WrappedBit(r, c) ==
    LET h == (r - v[Nibble2(Fetch)]) % 32
        w == (c - v[Nibble1(Fetch)]) % 64
    IN  IF h < Nibble3(Fetch) /\ w < 8
        THEN (memory[i + h] \div (2 ^ (7 - w))) % 2
        ELSE 0

C20_CoordinatePolicy ==
    [][/\ PlotPolicy
       /\ (FetchingCycleStep /\ Fetch \div 4096 = 13 /\ ~OutOfRange(Fetch)
              /\ Len(stack) <= 12) => main_pc' # "panicked"
       /\ (DrawStep /\ Nibble1(Fetch) # 15 /\ Nibble2(Fetch) # 15) =>
              /\ \A r \in 0..31, c \in 0..63 :
                    screen'[r][c] =
                        (screen[r][c] + IF wrapping_enabled
                                        THEN WrappedBit(r, c)
                                        ELSE SpriteBit(r, c)) % 2
              /\ (~wrapping_enabled /\ (v[Nibble1(Fetch)] >= 64
                                        \/ v[Nibble2(Fetch)] >= 32)) =>
                    (screen' = screen /\ v'[15] = 0)]_vars

\* with wrapping, the row FF drawn at (64, 0) has set the pixels 0..7 of row 0
C20_Witness ==
    /\ main_pc = "beep_lock"
    /\ wrapping_enabled
    /\ Len(instr_log) = 5
    /\ instr_log[1] = \hD011
    /\ v[0] = 64
    /\ v[1] = 0
    /\ \A c \in 0..63 : screen[0][c] = IF c <= 7 THEN 1 ELSE 0

(***************************************************************************)
(* C21.  A plot inside the screen XORs the bit into the pixel at (x, y),   *)
(* leaves every other cell as it is and returns 1 exactly when the pixel   *)
(* was 1 and the bit is 1 (not when the pixel goes from 0 to 1, not when   *)
(* the bit is 0); clearing the screen sets all 64 * 32 cells to 0.         *)
(***************************************************************************)
\* the cells the plots of the property are made at
PlotSamples == { <<0, 0>>, <<7, 1>>, <<3, 1>>, <<63, 31>>, <<60, 30>>, <<20, 9>> }

\* set_pos on the framebuffer as it is, at the cell p with the bit b
PlotIsXor(p, b) ==
    LET q == set_pos(screen, p[1], p[2], b)
        prior == screen[p[2]][p[1]]
    IN  /\ q.screen = [screen EXCEPT ![p[2]][p[1]] = (prior + b) % 2]
        /\ q.changed = IF prior = 1 /\ b = 1 THEN 1 ELSE 0

C21_PlotAndClear ==
    [][/\ \A p \in PlotSamples, b \in {0, 1} : PlotIsXor(p, b)
       /\ clear_screen(screen) = [r \in 0..31 |-> [c \in 0..63 |-> 0]]
       /\ (FetchingCycleStep /\ Fetch = \h00E0) =>
              /\ DOMAIN screen' = 0..31
              /\ \A r \in 0..31 : DOMAIN screen'[r] = 0..63
              /\ \A r \in 0..31, c \in 0..63 : screen'[r][c] = 0]_vars

\* the screen cleared after two sprites were drawn, the second one on the
\* last two rows and the last four columns
C21_Witness ==
    /\ main_pc = "beep_lock"
    /\ Len(instr_log) = 8
    /\ instr_log[1] = \h00E0
    /\ instr_log[2] = \hD012
    /\ instr_log[6] = \hD012
    /\ v[0] = 60
    /\ v[15] = 0
    /\ screen = BlankScreen

(***************************************************************************)
(* C22.  Fx33 with I <= 4093 writes the decimal digits of Vx: memory[I] =  *)
(* Vx div 100, memory[I+1] = (Vx div 10) mod 10, memory[I+2] = Vx mod 10,  *)
(* for every byte value of Vx; each digit is in 0..9 and the three make Vx *)
(* again; no other memory cell, no register and not I changes.             *)
(***************************************************************************)
C22_BcdDigits ==
    [][(FetchingCycleStep /\ Fetch \div 4096 = 15 /\ Fetch % 256 = \h33
            /\ i <= 4093) =>
          LET val == v[Nibble1(Fetch)]
          IN  /\ memory' = [a \in 0..4095 |->
                               CASE a = i -> val \div 100
                                 [] a = i + 1 -> (val \div 10) % 10
                                 [] a = i + 2 -> val % 10
                                 [] OTHER -> memory[a]]
              /\ \A k \in 0..2 : memory'[i + k] \in 0..9
              /\ 100 * memory'[i] + 10 * memory'[i + 1] + memory'[i + 2] = val
              /\ main_pc' # "panicked"
              /\ pc' = pc + 2
              /\ UNCHANGED <<v, i, stack, screen>>]_vars

\* the digits 2, 3, 4 of V0 = 234 at 0x300
C22_Witness ==
    /\ main_pc = "beep_lock"
    /\ Len(instr_log) = 3
    /\ instr_log[1] = \hF033
    /\ v[0] = 234
    /\ i = \h300
    /\ memory[\h300] = 2
    /\ memory[\h301] = 3
    /\ memory[\h302] = 4

(***************************************************************************)
(* C23.  Fx55 copies V0..Vx, Vx included, to memory[I..I+x] and changes no *)
(* register, no other memory cell and not I; Fx65 copies memory[I..I+x]    *)
(* into V0..Vx and changes no other register, no memory cell and not I;    *)
(* Fx65 right after Fx55 with the same x leaves every register as it was.  *)
(***************************************************************************)
\* a cycle() step on the opcode Fx<lo> whose cells I..I+x are inside memory
StoreLoadStep(lo) ==
    /\ FetchingCycleStep
    /\ Fetch \div 4096 = 15
    /\ Fetch % 256 = lo
    /\ i + Nibble1(Fetch) <= 4095

C23_StoreLoadRegisters ==
    [][/\ StoreLoadStep(\h55) =>
              /\ memory' = [a \in 0..4095 |->
                               IF a \in i..(i + Nibble1(Fetch))
                               THEN v[a - i] ELSE memory[a]]
              /\ pc' = pc + 2
              /\ UNCHANGED <<v, i, stack, screen>>
       /\ StoreLoadStep(\h65) =>
              /\ v' = [k \in 0..15 |->
                          IF k <= Nibble1(Fetch) THEN memory[i + k] ELSE v[k]]
              /\ pc' = pc + 2
              /\ UNCHANGED <<memory, i, stack, screen>>
       /\ (StoreLoadStep(\h65) /\ instr_log # <<>>
              /\ instr_log[1] = Fetch - 16) => v' = v]_vars

\* V0..V2 stored at 0x300 and loaded back: the registers and the three
\* cells agree, the cell after them was not written
C23_Witness ==
    /\ main_pc = "beep_lock"
    /\ Len(instr_log) = 7
    /\ instr_log[1] = \hF265
    /\ instr_log[2] = \hF255
    /\ i = \h300
    /\ \A k \in 0..2 : v[k] = 17 * (k + 1) /\ memory[\h300 + k] = v[k]
    /\ memory[\h303] = 0
    /\ v[15] = \h44

(***************************************************************************)
(* C24.  A key query with Vx outside 0..15 is taken as not pressed and is  *)
(* never fatal: Ex9E then does not skip (PC + 2) and ExA1 skips (PC + 4).  *)
(* With Vx in 0..15, Ex9E skips iff key Vx is pressed in the snapshot and  *)
(* ExA1 skips iff it is not.                                               *)
(***************************************************************************)
\* a cycle() step on the opcode Ex<lo>
KeyQueryStep(lo) ==
    FetchingCycleStep /\ Fetch \div 4096 = 14 /\ Fetch % 256 = lo

C24_KeyQueryOutOfRange ==
    [][/\ KeyQueryStep(\h9E) =>
              /\ main_pc' # "panicked"
              /\ v[Nibble1(Fetch)] > 15 => pc' = pc + 2
              /\ v[Nibble1(Fetch)] <= 15 =>
                    pc' = IF keypad[v[Nibble1(Fetch)]] THEN pc + 4 ELSE pc + 2
       /\ KeyQueryStep(\hA1) =>
              /\ main_pc' # "panicked"
              /\ v[Nibble1(Fetch)] > 15 => pc' = pc + 4
              /\ v[Nibble1(Fetch)] <= 15 =>
                    pc' = IF keypad[v[Nibble1(Fetch)]] THEN pc + 2 ELSE pc + 4
       /\ (KeyQueryStep(\h9E) \/ KeyQueryStep(\hA1)) =>
              UNCHANGED <<memory, v, i, stack, screen, keypad>>]_vars

\* Ex9E with V1 = 21 while key 5 is held did not skip
C24_Witness ==
    /\ main_pc = "beep_lock"
    /\ instr_log = << \hE19E, \h6115 >>
    /\ v[1] = 21
    /\ keypad[5]
    /\ pc = RomStart + 4

(***************************************************************************)
(* C25.  Cxkk sets Vx to r AND kk for a random r in 0..254: r is never     *)
(* 255, so with kk = 0xFF Vx = 255 cannot result, while every value in     *)
(* 0..254 can.                                                             *)
(***************************************************************************)
\* cycle() is about to execute the word instr
AboutToExecute(instr) ==
    main_pc = "cycle" /\ ~pause /\ pc + 1 < MemSize /\ Fetch = instr

C26_DrawAtRegistersBefore ==
    [][DrawStep =>
          \A r \in 0..31, c \in 0..63 :
              screen'[r][c] = (screen[r][c] + IF wrapping_enabled
                                              THEN WrappedBit(r, c)
                                              ELSE SpriteBit(r, c)) % 2]_vars

(***************************************************************************)
(* C27.  The instruction is memory[PC] * 256 + memory[PC + 1].  After a    *)
(* cycle() that is neither paused nor fatal PC is: the target for a jump   *)
(* (nnn for 1nnn and 2nnn, V0 + nnn unmasked for Bnnn, the popped address  *)
(* for 00EE); PC + 4 or PC + 2 for 3xkk, 4xkk, 5xy0, 9xy0, Ex9E and ExA1   *)
(* by their condition; PC itself for Fx0A with no key pressed; PC + 2 for  *)
(* everything else.                                                        *)
(***************************************************************************)
\* the PC the instruction at PC must leave
PCAfter ==
    LET w == memory[pc] * 256 + memory[pc + 1]
        n0 == w \div 4096
        x == (w \div 256) % 16
        y == (w \div 16) % 16
        n3 == w % 16
        kk == w % 256
        nnn == w % 4096
        skip_if(c) == IF c THEN pc + 4 ELSE pc + 2
        held == v[x] <= 15 /\ keypad[v[x]]
    IN  CASE n0 \in {1, 2} -> nnn
          [] n0 = 11 -> v[0] + nnn
          [] w = \h00EE -> stack[Len(stack)]
          [] n0 = 3 -> skip_if(v[x] = kk)
          [] n0 = 4 -> skip_if(v[x] # kk)
          [] n0 = 5 /\ n3 = 0 -> skip_if(v[x] = v[y])
          [] n0 = 9 /\ n3 = 0 -> skip_if(v[x] # v[y])
          [] n0 = 14 /\ kk = \h9E -> skip_if(held)
          [] n0 = 14 /\ kk = \hA1 -> skip_if(~held)
          [] n0 = 15 /\ kk = \h0A ->
                IF \A k \in 0..15 : ~keypad[k] THEN pc ELSE pc + 2
          [] OTHER -> pc + 2

\* a step that ends a cycle() which executed an instruction: in cycle itself,
\* or for Fx07, Fx15 and Fx18 at the step that ends their work on the timers
ExecutedStep ==
    /\ main_pc \in {"cycle", "timers_lock", "timers_store"}
    /\ main_pc' = "beep_lock"
    /\ ~pause

IndexStep ==
    /\ FetchingCycleStep
    /\ \/ Fetch \div 4096 = 10
       \/ Fetch \div 4096 = 15 /\ Fetch % 256 \in {\h1E, \h29}

SoundWritten == pc = RomStart + 4 /\ main_pc # "timers_store"

\* no tick is between its read of the pair and its store
NoTickInProgress == timer_pc \notin {"beep", "store"}

\* the ticks completed since the write
TicksSinceWrite == v[0] - timers[2]

Snapshots == { [k \in 0..15 |-> k \in keys] : keys \in KeyChoices }

C30_SnapshotPerIteration ==
    [][/\ (main_pc = "loop" /\ main_pc' = "cycle") => keypad' \in Snapshots
       /\ ~(main_pc = "loop" /\ main_pc' = "cycle") => keypad' = keypad
       /\ (main_pc # "cycle" /\ main_pc' = "cycle") => main_pc = "loop"
       /\ (main_pc # "beep_lock" /\ main_pc' = "beep_lock") =>
              main_pc \in {"cycle", "timers_lock", "timers_store"}
       /\ (main_pc # "beep_read" /\ main_pc' = "beep_read") =>
              main_pc = "beep_lock"
       /\ (main_pc = "beep_read" /\ main_pc' # "beep_read") =>
              (beeping' = must_beep /\ main_pc' = "sleep")
       /\ (main_pc # "loop" /\ main_pc' = "loop") => main_pc = "sleep"]_vars

\* key 5 was in the snapshot when E19E ran (it skipped) and is not in the
\* snapshot of the next iteration, in which E1A1 ran (it skipped too)
C30_Witness ==
    /\ main_pc = "beep_lock"
    /\ instr_log = << \hE1A1, \hE19E, \h6105 >>
    /\ pc = RomStart + 10
    /\ \A k \in 0..15 : ~keypad[k]

(***************************************************************************)
(* C31.  The two threads cannot deadlock.  The timer thread takes the      *)
(* must_beep mutex only while it holds the timers mutex; the main thread   *)
(* holds neither mutex while it takes the other.  In every reachable state *)
(* some thread can take a step unless both have ended, and every thread    *)
(* that waits for a mutex gets it.                                         *)
(***************************************************************************)
\* both threads have ended (main by returning or by a panic)
BothEnded == main_pc \in {"done", "panicked"} /\ timer_pc = "done"

C31_NoDeadlock ==
    /\ [](/\ timer_pc = "beep" => timers_lock = "timer"
          /\ main_pc = "beep_lock" => timers_lock # "main"
          /\ main_pc = "timers_lock" => must_beep_lock # "main"
          /\ must_beep_lock = "main" => main_pc = "beep_read"
          /\ timers_lock = "main" => main_pc = "timers_store"
          /\ ~BothEnded => ENABLED Next)
    /\ ((main_pc = "timers_lock") ~> (main_pc = "timers_store"))
    /\ ((main_pc = "beep_lock") ~> (main_pc = "beep_read"))
    /\ ((timer_pc = "lock") ~> (timer_pc \in {"beep", "store"}))
    /\ ((timer_pc = "beep") ~> (timer_pc = "store"))

\* the timer thread, holding the timers mutex, waits for the must_beep mutex
\* that the main thread holds
C31_Witness ==
    /\ timer_pc = "beep"
    /\ timers_lock = "timer"
    /\ must_beep_lock = "main"
    /\ main_pc = "beep_read"

(***************************************************************************)
(* C32.  The pause flag freezes the interpreter only.  While it is set a   *)
(* cycle() changes nothing, and the timer thread ticks as ever: it takes   *)
(* the timers mutex, decrements delay and sound, writes the beep flag and  *)
(* stores the pair.  Fx07 reads the delay the pair holds when it runs, so  *)
(* after the pause it reads a delay reduced by the ticks made meanwhile.   *)
(***************************************************************************)
\* t after one tick
Ticked(t) == IF t > 0 THEN t - 1 ELSE 0

C32_PauseFreezesInterpreterOnly ==
    /\ [][/\ (CycleStep /\ pause) =>
                  UNCHANGED <<pc, v, i, timers, must_beep, timer_pc, timer_local>>
          /\ (TickLockStep /\ pause) =>
                  /\ timers_lock' = "timer"
                  /\ timer_local' = <<Ticked(timers[1]), Ticked(timers[2])>>
          /\ (TickBeepStep /\ pause) => must_beep' = (timers[2] > 1)
          /\ (TickStoreStep /\ pause) =>
                  timers' = <<Ticked(timers[1]), Ticked(timers[2])>>
          /\ (CpuLockStep /\ Fetch % 256 = 7 /\ ~timers_poisoned) =>
                  /\ ~pause
                  /\ v'[Nibble1(Fetch)] = timers[1]
                  /\ pc' = pc + 2]_vars
    /\ [](pause /\ timer_pc = "lock" /\ timers_lock = "free" =>
              ENABLED timer_lock)

\* a tick takes the delay timer from TimerStart down while the interpreter
\* is paused in front of Fx07
C32_Witness ==
    /\ pause
    /\ main_pc = "cycle"
    /\ pc = RomStart + 6
    /\ Fetch = \hF107
    /\ timer_pc = "store"
    /\ timers[1] = TimerStart
    /\ timer_local[1] = TimerStart - 1

(***************************************************************************)
(* C33.  The instruction log never holds more than 12 entries and is kept  *)
(* newest first.  Every cycle() that is not paused puts the opcode it      *)
(* fetched at position 0, moves the entries it had one position back and   *)
(* drops the one that would be the 13th; an Fx0A that is fetched again     *)
(* because no key was down is logged again.  Nothing else changes the log. *)
(***************************************************************************)
C33_InstructionLog ==
    /\ [](Len(instr_log) <= 12)
    /\ [][/\ FetchingCycleStep =>
                  /\ Len(instr_log') = IF Len(instr_log) < 12
                                       THEN Len(instr_log) + 1 ELSE 12
                  /\ instr_log'[1] = Fetch
                  /\ \A k \in 2..Len(instr_log') :
                         instr_log'[k] = instr_log[k - 1]
          /\ (FetchingCycleStep /\ Decode(Fetch) = "fx0a" /\ pc' = pc) =>
                  /\ instr_log # <<>> => instr_log'[2] = instr_log[1]
                  /\ Len(instr_log') >= Len(instr_log)
          /\ ~FetchingCycleStep => instr_log' = instr_log]_vars

\* a full log whose two newest entries are the same waiting F10A
C33_Witness ==
    /\ Len(instr_log) = 12
    /\ instr_log[1] = \hF10A
    /\ instr_log[2] = \hF10A
    /\ instr_log[12] = \hB204
    /\ pc = RomStart + 10

====
